---- MODULE Spec2Model ----
(***************************************************************************)
(* Admin authentication service: login / lockout / session state machine.  *)
(*                                                                         *)
(* Layers, as in the source:                                               *)
(*   controller  (auth.controller: login)      -> HTTP response            *)
(*   service     (auth.service: login)         -> SELECT, bcrypt, UPDATE,  *)
(*                                                CALL admin_auth_login    *)
(*   middleware  (auth.middleware: authenticate)                           *)
(*   store       (admin_users, admin_sessions, activity_log and the stored *)
(*                procedures, which live outside the service sources)      *)
(*                                                                         *)
(* Time is counted in minutes.  A request is a small process: the service  *)
(* suspends at every await, so other requests interleave between the       *)
(* SELECT of the account row and the UPDATE / procedure call.              *)
(***************************************************************************)
EXTENDS Integers, Sequences, FiniteSets, Bags, TLC

VARIABLES
    now,            \* the store's and the server's clock (minutes)
    users,          \* admin_users rows, by admin_id
    sessions,       \* admin_sessions rows
    nextSid,        \* source of fresh session identifiers
    activity_log,   \* activity_log rows (a bag: the table keeps no order)
    req,            \* the login requests in flight, one record per request slot
    authreq,        \* the authenticated request in flight (past the middleware)
    issued,         \* the tokens handed out to clients so far
    last,           \* the response that has just been sent, until it is observed
    failures,       \* history: failure UPDATEs executed since the counter was last zeroed
    JWT_EXPIRES_IN  \* process.env.JWT_EXPIRES_IN || '8h', read once at start (minutes)

vars == <<now, users, sessions, nextSid, activity_log, req, authreq, issued, last, failures,
         JWT_EXPIRES_IN>>

(***************************************************************************)
(* Bounds of the model.                                                    *)
(***************************************************************************)
MaxTime == 30
TickStep == 30
MaxFailed == 6
MaxSessions == 2
MaxLog == 2

(***************************************************************************)
(* Program constants.                                                      *)
(***************************************************************************)
LockThreshold == 5
LockMinutes == 30
AccessTtl == 480
RefreshTtl == 10080
SessionTtl == 480

JWT_SECRET == "your_jwt_secret_key"
JWT_REFRESH_SECRET_Shared == "your_jwt_secret_key"

JWT_REFRESH_SECRET == "your_refresh_secret"

NULL == <<>>

Requests == {1, 2}
AdminIds == {1}

Username(a) == "alice"
Email(a) == "alice@example.org"
GoodPassword(a) == "S3cret"

Identifiers == {"alice", "ghost", ""}
Passwords == {"S3cret", "wrong", ""}
Client1 == [ip |-> "10.0.0.1", ua |-> "curl"]

\* A field of the JSON body that is absent reads as undefined; a field may
\* also be null.  !x holds of these and of the empty string.
JsUndefined == "undefined"
JsNull == "null"
Absent == {"", JsUndefined, JsNull}

Falsy_EmptyOnly(x) == x = ""

Falsy(x) == x \in Absent

AnyIdentifiers == Identifiers \cup Absent
AnyPasswords == Passwords \cup Absent
Clients == {Client1, [ip |-> "", ua |-> ""]}

(***************************************************************************)
(* bcrypt: a hash remembers the password it was derived from and nothing   *)
(* else compares equal to it.                                              *)
(***************************************************************************)
Hash(p) == <<"$2b$10$", p>>

BcryptCompare(p, h) == h = Hash(p)

PasswordHash(a) == Hash(GoodPassword(a))

(***************************************************************************)
(* Error messages are sequences of words; String.prototype.includes is     *)
(* containment of a contiguous run of words.                               *)
(***************************************************************************)
Includes(msg, pat) ==
    \E i \in 1..(Len(msg) - Len(pat) + 1) :
        SubSeq(msg, i, i + Len(pat) - 1) = pat

MsgInvalid == <<"Invalid", "username", "or", "password">>
MsgLocked(until) == <<"Account", "is", "locked", "until", ToString(until)>>
MsgInactive_Disabled == <<"Account", "is", "disabled">>

MsgInactive == <<"Account", "is", "inactive">>
MsgLoginFailed == <<"Login", "failed">>
MsgRequired == <<"Username", "and", "password", "are", "required">>
MsgStoreDown == <<"connect", "ETIMEDOUT">>
MsgSqlException == <<"Deadlock", "found", "when", "trying", "to", "get", "lock">>
\* MySQL error 3118, raised when the server refuses the pool's database user
MsgAccessDenied == <<"Access", "denied", "for", "user", "Account", "is", "locked">>

\* The ways a call to the store rejects, and the text of the error it rejects with.
ThrowFaults == {"throw", "denied"}

StoreError(fault) == IF fault = "denied" THEN MsgAccessDenied ELSE MsgStoreDown

NoData == [status |-> "none"]
NoResp == [status |-> 0, code |-> "", message |-> <<>>, details |-> <<>>, data |-> NoData]

(***************************************************************************)
(* utils/response                                                          *)
(***************************************************************************)
sendSuccess(data) ==
    [status |-> 200, code |-> "", message |-> <<>>, details |-> <<>>, data |-> data]

sendError(statusCode, code, message, details) ==
    [status |-> statusCode, code |-> code, message |-> message,
     details |-> details, data |-> NoData]

sendUnauthorized(message) == sendError(401, "48000", message, <<>>)

sendInternalError(message, details) == sendError(500, "52000", message, details)

(***************************************************************************)
(* utils/jwt                                                               *)
(***************************************************************************)
JwtSign(payload, secret, ttl, t) ==
    [secret |-> secret, payload |-> payload, iat |-> t, exp |-> t + ttl]

JwtVerifies(token, secret, t) == token.secret = secret /\ t < token.exp

generateAccessToken(payload, t) == JwtSign(payload, JWT_SECRET, JWT_EXPIRES_IN, t)

generateRefreshToken(payload, t) == JwtSign(payload, JWT_REFRESH_SECRET, RefreshTtl, t)

verifyAccessToken(token, t) == JwtVerifies(token, JWT_SECRET, t)

verifyRefreshToken(token, t) == JwtVerifies(token, JWT_REFRESH_SECRET, t)

(***************************************************************************)
(* Store: rows and queries.                                                *)
(***************************************************************************)
IsLocked(row, t) == row.locked_until # NULL /\ row.locked_until[1] > t

\* SELECT ... FROM admin_users WHERE username = ? OR email = ?
SelectUser(identifier) ==
    {a \in AdminIds : Username(a) = identifier \/ Email(a) = identifier}

\* UPDATE admin_users
\*    SET failed_login_attempts = failed_login_attempts + 1,
\*        locked_until = CASE WHEN failed_login_attempts + 1 >= 5
\*                            THEN DATE_ADD(NOW(), INTERVAL 30 MINUTE) ELSE NULL END
\* The store is MySQL (mysql2 pool, MySQL 8.0+).  A single-table UPDATE in
\* MySQL evaluates its assignments from left to right, and a column named in
\* a later assignment has the value an earlier assignment gave it: the CASE
\* reads the counter after it has been incremented.
UpdateFailedLogin_ClearsPastDue(row, t) ==
    LET counted == [row EXCEPT !.failed_login_attempts = row.failed_login_attempts + 1]
    IN  [counted EXCEPT !.locked_until =
                           IF row.locked_until # NULL /\ row.locked_until[1] <= t
                           THEN NULL
                           ELSE IF counted.failed_login_attempts + 1 >= LockThreshold
                           THEN <<t + LockMinutes>>
                           ELSE NULL]

UpdateFailedLogin_Twice(row, t) ==
    LET counted == [row EXCEPT !.failed_login_attempts = row.failed_login_attempts + 2]
    IN  [counted EXCEPT !.locked_until =
                           IF counted.failed_login_attempts + 1 >= LockThreshold
                           THEN <<t + LockMinutes>>
                           ELSE NULL]

UpdateFailedLogin(row, t) ==
    LET counted == [row EXCEPT !.failed_login_attempts = row.failed_login_attempts + 1]
    IN  [counted EXCEPT !.locked_until =
                           IF counted.failed_login_attempts + 1 >= LockThreshold
                           THEN <<t + LockMinutes>>
                           ELSE NULL]

\* The failure update of the login procedure, as the lockout ledger states
\* it: the attempt that brings the counter to the threshold sets the lock.
LedgerFailure(row, t) ==
    [row EXCEPT !.failed_login_attempts = row.failed_login_attempts + 1,
                !.locked_until = IF row.failed_login_attempts + 1 >= LockThreshold
                                 THEN <<t + LockMinutes>>
                                 ELSE NULL]

OrNull(x) == IF x = "" THEN "NULL" ELSE x

LogEntry(type, who) == [activity_type |-> type, created_by |-> who]

\* INSERT INTO activity_log
LogAppend(log, entry) == log (+) SetToBag({entry})

FailRow(code, message) ==
    [status |-> "fail", error_type |-> "Authentication Error",
     error_code |-> code, error_message |-> message]


(***************************************************************************)
(* Stored procedure admin_auth_login(username, password_hash, ip, agent).   *)
(* One transaction: lookup, lock check, active check, hash comparison,     *)
(* then either the failure accounting or the success bookkeeping (counter  *)
(* reset, session row, activity log row).  The result is the row it        *)
(* SELECTs and the tables as it leaves them.                               *)
(***************************************************************************)
ProcState(row, u, s, n, l) ==
    [row |-> row, users |-> u, sessions |-> s, nextSid |-> n, activity_log |-> l]

NewSession(sid, a, ip, ua, t) ==
    [session_id |-> sid, admin_id |-> a, is_active |-> TRUE,
     expires_at |-> t + SessionTtl,
     ip_address |-> OrNull(ip), user_agent |-> OrNull(ua)]

LoginSuccessRow(a, sid, t) ==
    [status |-> "success", admin_id |-> a, username |-> Username(a),
     email |-> Email(a), role |-> users[a].role, session_id |-> sid,
     expires_at |-> t + SessionTtl, is_active |-> TRUE]

NewSessionId_RowCount == Cardinality(sessions) + 1

\* The identifier given to a new session: never one that was given before.
NewSessionId == nextSid

admin_auth_login(identifier, hash, ip, ua) ==
    IF SelectUser(identifier) = {}
    THEN ProcState(FailRow("48002", MsgInvalid),
                   users, sessions, nextSid, activity_log)
    ELSE
      LET a == CHOOSE x \in SelectUser(identifier) : TRUE
          row == users[a]
      IN  IF IsLocked(row, now)
          THEN ProcState(FailRow("48003", <<"Account", "is", "locked">>),
                         users, sessions, nextSid,
                         LogAppend(activity_log, LogEntry("ADMIN_LOGIN_ACCOUNT_LOCKED", identifier)))
          ELSE IF ~row.is_active
          THEN ProcState(FailRow("48004", MsgInactive),
                         users, sessions, nextSid,
                         LogAppend(activity_log, LogEntry("ADMIN_LOGIN_ACCOUNT_INACTIVE", identifier)))
          ELSE IF hash # PasswordHash(a)
          THEN ProcState(FailRow("48002", MsgInvalid),
                         [users EXCEPT ![a] = LedgerFailure(@, now)],
                         sessions, nextSid,
                         LogAppend(activity_log, LogEntry("ADMIN_LOGIN_INVALID_PASSWORD", identifier)))
          ELSE ProcState(LoginSuccessRow(a, NewSessionId, now),
                         [users EXCEPT ![a].failed_login_attempts = 0,
                                       ![a].locked_until = NULL],
                         sessions \cup {NewSession(NewSessionId, a, ip, ua, now)},
                         nextSid + 1,
                         LogAppend(activity_log, LogEntry("ADMIN_LOGIN_SUCCESS", Username(a))))

\* EXIT HANDLER FOR SQLEXCEPTION: the work is undone, one ERROR row is
\* logged and a fail row carrying the server's message text is returned.
SqlExceptionHandler(who, procName) ==
    ProcState([status |-> "fail", error_type |-> "SQL Exception",
               error_code |-> "1213", error_message |-> MsgSqlException],
              users, sessions, nextSid,
              LogAppend(activity_log, LogEntry(procName, who)))

(***************************************************************************)
(* auth.controller login: the catch block classifies by message text.      *)
(***************************************************************************)
LoginCatch(message) ==
    IF Includes(message, MsgInvalid) THEN sendError(401, "48002", message, <<>>)
    ELSE IF Includes(message, <<"locked">>) THEN sendError(403, "48003", message, <<>>)
    ELSE IF Includes(message, <<"inactive">>) THEN sendError(403, "48004", message, <<>>)
    ELSE sendInternalError(MsgLoginFailed, message)

(***************************************************************************)
(* auth.service login, up to the password comparison: the verdict on the   *)
(* row that the SELECT returned.                                           *)
(***************************************************************************)
\* No row: the SELECT found nothing, or was never answered.
NoUser ==
    [failed_login_attempts |-> 0, locked_until |-> NULL, is_active |-> FALSE, role |-> ""]

Thrown(branch, message, user) ==
    [kind |-> "throw", branch |-> branch, message |-> message, user |-> user]

LoginChecks_RevealsUnknownUser(identifier, fault) ==
    IF fault = "throw" THEN Thrown("store_error", MsgStoreDown, NoUser)
    ELSE IF SelectUser(identifier) = {}
    THEN Thrown("not_found", <<"User", "not", "found">>, NoUser)
    ELSE
      LET a == CHOOSE x \in SelectUser(identifier) : TRUE
          user == users[a]
      IN  IF IsLocked(user, now)
          THEN Thrown("locked", MsgLocked(user.locked_until[1]), user)
          ELSE IF ~user.is_active
          THEN Thrown("inactive", MsgInactive, user)
          ELSE [kind |-> "compare", admin_id |-> a, user |-> user]

LoginChecks_InactiveFirst(identifier, fault) ==
    IF fault = "throw" THEN Thrown("store_error", MsgStoreDown, NoUser)
    ELSE IF SelectUser(identifier) = {} THEN Thrown("not_found", MsgInvalid, NoUser)
    ELSE
      LET a == CHOOSE x \in SelectUser(identifier) : TRUE
          user == users[a]
      IN  IF ~user.is_active
          THEN Thrown("inactive", MsgInactive, user)
          ELSE IF IsLocked(user, now)
          THEN Thrown("locked", MsgLocked(user.locked_until[1]), user)
          ELSE [kind |-> "compare", admin_id |-> a, user |-> user]

LoginChecks_NoLockCheck(identifier, fault) ==
    IF fault = "throw" THEN Thrown("store_error", MsgStoreDown, NoUser)
    ELSE IF SelectUser(identifier) = {} THEN Thrown("not_found", MsgInvalid, NoUser)
    ELSE
      LET a == CHOOSE x \in SelectUser(identifier) : TRUE
          user == users[a]
      IN  IF ~user.is_active
          THEN Thrown("inactive", MsgInactive, user)
          ELSE [kind |-> "compare", admin_id |-> a, user |-> user]

LoginChecks(identifier, fault) ==
    IF fault \in ThrowFaults THEN Thrown("store_error", StoreError(fault), NoUser)
    ELSE IF SelectUser(identifier) = {} THEN Thrown("not_found", MsgInvalid, NoUser)
    ELSE
      LET a == CHOOSE x \in SelectUser(identifier) : TRUE
          user == users[a]
      IN  IF IsLocked(user, now)
          THEN Thrown("locked", MsgLocked(user.locked_until[1]), user)
          ELSE IF ~user.is_active
          THEN Thrown("inactive", MsgInactive, user)
          ELSE [kind |-> "compare", admin_id |-> a, user |-> user]

IdleReq ==
    [pc |-> "idle", username |-> "", password |-> "", client |-> [ip |-> "", ua |-> ""],
     admin_id |-> 0, user |-> NoUser, isPasswordValid |-> FALSE]

NoEvent == [op |-> "none"]

IdleAuth == [pc |-> "idle"]

\* The response of login request r, with the inputs it answered.
LoginEvent(r, q, branch, resp) ==
    [op |-> "login", r |-> r, username |-> q.username, password |-> q.password,
     client |-> q.client, user |-> q.user, branch |-> branch, resp |-> resp]

(***************************************************************************)
(* Init                                                                    *)
(***************************************************************************)
Init ==
    /\ now = 0
    /\ users = [a \in AdminIds |->
                  [failed_login_attempts |-> 0, locked_until |-> NULL,
                   is_active |-> TRUE, role |-> "admin"]]
    /\ sessions = {}
    /\ nextSid = 1
    /\ activity_log = EmptyBag
    /\ authreq = IdleAuth
    /\ req = [r \in Requests |-> IdleReq]
    /\ issued = {}
    /\ last = NoEvent
    /\ failures = [a \in AdminIds |-> 0]
    /\ JWT_EXPIRES_IN = AccessTtl

(***************************************************************************)
(* POST /auth/login, first part: controller validation, SELECT of the row, *)
(* the not-found / locked / inactive exits, start of bcrypt.compare.       *)
(***************************************************************************)
LoginBegin_CountsRejected(r, u, p, c, fault) ==
    /\ last = NoEvent
    /\ req[r].pc = "idle"
    /\ LET q == [IdleReq EXCEPT !.username = u, !.password = p, !.client = c]
           v == LoginChecks(u, fault)
       IN  IF Falsy(u) \/ Falsy(p)
           THEN /\ last' = LoginEvent(r, q, "validation",
                                      sendError(400, "50000", MsgRequired, <<>>))
                /\ UNCHANGED <<req, users>>
           ELSE IF v.kind = "throw"
           THEN /\ last' = LoginEvent(r, [q EXCEPT !.user = v.user], v.branch,
                                      LoginCatch(v.message))
                /\ req' = req
                /\ users' = IF v.branch \in {"locked", "inactive"}
                                /\ v.user.failed_login_attempts < MaxFailed
                             THEN [a \in AdminIds |->
                                     IF a \in SelectUser(u)
                                     THEN UpdateFailedLogin(users[a], now)
                                     ELSE users[a]]
                             ELSE users
           ELSE /\ req' = [req EXCEPT ![r] =
                            [q EXCEPT !.pc = "compared", !.admin_id = v.admin_id,
                                      !.user = v.user,
                                      !.isPasswordValid =
                                          BcryptCompare(p, PasswordHash(v.admin_id))]]
                /\ UNCHANGED <<last, users>>
    /\ UNCHANGED <<now, sessions, nextSid, activity_log, authreq, issued, failures,
                   JWT_EXPIRES_IN>>

LoginBegin(r, u, p, c, fault) ==
    /\ last = NoEvent
    /\ req[r].pc = "idle"
    /\ LET q == [IdleReq EXCEPT !.username = u, !.password = p, !.client = c]
           v == LoginChecks(u, fault)
       IN  IF Falsy(u) \/ Falsy(p)
           THEN /\ last' = LoginEvent(r, q, "validation",
                                      sendError(400, "50000", MsgRequired, <<>>))
                /\ req' = req
           ELSE IF v.kind = "throw"
           THEN /\ last' = LoginEvent(r, [q EXCEPT !.user = v.user], v.branch,
                                      LoginCatch(v.message))
                /\ req' = req
           ELSE /\ req' = [req EXCEPT ![r] =
                            [q EXCEPT !.pc = "compared", !.admin_id = v.admin_id,
                                      !.user = v.user,
                                      !.isPasswordValid =
                                          BcryptCompare(p, PasswordHash(v.admin_id))]]
                /\ last' = last
    /\ UNCHANGED <<now, users, sessions, nextSid, activity_log, authreq, issued, failures,
                   JWT_EXPIRES_IN>>

(***************************************************************************)
(* Wrong password: the failure UPDATE, then 'Invalid username or password'.*)
(***************************************************************************)
RecordFailure_ReadThenWrite(r, t) ==
    [users[req[r].admin_id] EXCEPT
        !.failed_login_attempts = req[r].user.failed_login_attempts + 1,
        !.locked_until = IF req[r].user.failed_login_attempts + 1 >= LockThreshold
                         THEN <<t + LockMinutes>>
                         ELSE NULL]

\* The UPDATE of request r: the store computes the new row from the row it holds.
RecordFailure(r, t) == UpdateFailedLogin(users[req[r].admin_id], t)

LoginFailedUpdate(r, fault) ==
    /\ last = NoEvent
    /\ req[r].pc = "compared"
    /\ ~req[r].isPasswordValid
    /\ LET a == req[r].admin_id
       IN  IF fault \in ThrowFaults
           THEN /\ UNCHANGED <<users, failures>>
                /\ last' = LoginEvent(r, req[r], "store_error", LoginCatch(StoreError(fault)))
           ELSE /\ users[a].failed_login_attempts < MaxFailed
                /\ users' = [users EXCEPT ![a] = RecordFailure(r, now)]
                /\ failures' = [failures EXCEPT ![a] = @ + 1]
                /\ last' = LoginEvent(r, req[r], "wrong_password", LoginCatch(MsgInvalid))
    /\ req' = [req EXCEPT ![r] = IdleReq]
    /\ UNCHANGED <<now, sessions, nextSid, activity_log, authreq, issued,
                   JWT_EXPIRES_IN>>

(***************************************************************************)
(* Right password: CALL admin_auth_login with the stored hash, then the    *)
(* tokens.                                                                 *)
(***************************************************************************)
\* Reading a property an object does not have gives undefined.
Get(obj, field) == IF field \in DOMAIN obj THEN obj[field] ELSE "undefined"

StatusFail_WrongWord(row) == Get(row, "status") = "error"

StatusFail_Unchecked(row) == FALSE

\* loginResult.status === 'fail'
StatusFail(row) == Get(row, "status") = "fail"

TokenPayload_NoSession(row) ==
    [f \in {"admin_id", "username", "email", "role"} \cap DOMAIN row |-> row[f]]

\* jwt.sign serialises the payload: properties that are undefined are left out.
TokenPayload(row) ==
    [f \in {"admin_id", "username", "email", "role", "session_id"} \cap DOMAIN row |-> row[f]]

LoginResult_WithHash(row, t) ==
    [access_token |-> generateAccessToken(TokenPayload(row), t),
     refresh_token |-> generateRefreshToken(TokenPayload(row), t),
     password_hash |-> PasswordHash(row.admin_id)] @@ row

LoginResult(row, t) ==
    [access_token |-> generateAccessToken(TokenPayload(row), t),
     refresh_token |-> generateRefreshToken(TokenPayload(row), t)] @@ row

LoginCallProcedure(r, fault) ==
    /\ last = NoEvent
    /\ req[r].pc = "compared"
    /\ req[r].isPasswordValid
    /\ BagCardinality(activity_log) < MaxLog
    /\ nextSid <= MaxSessions
    /\ LET a == req[r].admin_id
           out == IF fault = "sqlerr"
                  THEN SqlExceptionHandler(req[r].username, "ADMIN_AUTH_LOGIN_ERROR")
                  ELSE admin_auth_login(req[r].username, PasswordHash(a),
                                        req[r].client.ip, req[r].client.ua)
       IN  IF fault \in ThrowFaults
           THEN /\ last' = LoginEvent(r, req[r], "store_error", LoginCatch(StoreError(fault)))
                /\ UNCHANGED <<users, sessions, nextSid, activity_log, issued, failures>>
           ELSE IF fault = "empty"
           THEN /\ last' = LoginEvent(r, req[r], "no_result", LoginCatch(MsgLoginFailed))
                /\ UNCHANGED <<users, sessions, nextSid, activity_log, issued, failures>>
           ELSE /\ users' = out.users
                /\ failures' = IF out.users[a].failed_login_attempts
                                     < users[a].failed_login_attempts
                                  \/ out.row.status = "success"
                                THEN [failures EXCEPT ![a] = 0]
                                ELSE failures
                /\ sessions' = out.sessions
                /\ nextSid' = out.nextSid
                /\ activity_log' = out.activity_log
                /\ IF StatusFail(out.row)
                   THEN /\ last' = LoginEvent(r, req[r], "procedure_fail",
                                              LoginCatch(out.row.error_message))
                        /\ issued' = issued
                   ELSE /\ last' = LoginEvent(r, req[r], "success",
                                              sendSuccess(LoginResult(out.row, now)))
                        /\ issued' = issued \cup {LoginResult(out.row, now).access_token,
                                                  LoginResult(out.row, now).refresh_token}
    /\ req' = [req EXCEPT ![r] = IdleReq]
    /\ UNCHANGED <<now, authreq,
                   JWT_EXPIRES_IN>>

\* The client reads the response.
Observe ==
    /\ last # NoEvent
    /\ last' = NoEvent
    /\ UNCHANGED <<now, users, sessions, nextSid, activity_log, req, authreq, issued, failures,
                   JWT_EXPIRES_IN>>

(***************************************************************************)
(* Stored procedure admin_auth_verify_session(session_id): the session     *)
(* must exist, be active and be unexpired; the row it returns carries the  *)
(* owning account as it is now.                                            *)
(***************************************************************************)
SessionLive_IgnoresExpiry(sid) ==
    \E s \in sessions : s.session_id = sid /\ s.is_active

SessionLive(sid) ==
    \E s \in sessions : s.session_id = sid /\ s.is_active /\ s.expires_at > now

admin_auth_verify_session(sid) ==
    IF SessionLive(sid)
    THEN LET s == CHOOSE x \in sessions : x.session_id = sid
         IN  [status |-> "success", admin_id |-> s.admin_id,
              username |-> Username(s.admin_id), email |-> Email(s.admin_id),
              role |-> users[s.admin_id].role, mfa_enabled |-> FALSE,
              session_id |-> sid]
    ELSE FailRow("48006", <<"Invalid", "or", "expired", "session">>)

(***************************************************************************)
(* Stored procedure admin_auth_logout(session_id, admin_id): marks the     *)
(* session inactive and logs it.                                           *)
(***************************************************************************)
admin_auth_logout(sid, a) ==
    IF \E s \in sessions : s.session_id = sid /\ s.admin_id = a
    THEN ProcState([status |-> "success"], users,
                   {IF s.session_id = sid THEN [s EXCEPT !.is_active = FALSE] ELSE s :
                        s \in sessions},
                   nextSid,
                   LogAppend(activity_log, LogEntry("ADMIN_LOGOUT", Username(a))))
    ELSE ProcState(FailRow("48006", <<"Session", "not", "found">>),
                   users, sessions, nextSid, activity_log)

(***************************************************************************)
(* auth.middleware authenticate: the verdict on one request.               *)
(***************************************************************************)
NoHeader == [scheme |-> "none"]

Bearer(token) == [scheme |-> "Bearer", token |-> token]

ForgedToken ==
    [secret |-> "guessed",
     payload |-> [admin_id |-> 1, username |-> "alice", email |-> "alice@example.org",
                  role |-> "admin", session_id |-> 1],
     iat |-> 0, exp |-> RefreshTtl]

\* A string that is not a JWT at all.
MalformedToken ==
    [secret |-> "", payload |-> [raw |-> "not.a.jwt"], iat |-> 0, exp |-> RefreshTtl]

Headers == {NoHeader, [scheme |-> "Basic"]} \cup {Bearer(t) : t \in issued \cup {ForgedToken}}

\* The headers a client of the refresh flow may send.
AnyHeaders == Headers \cup {Bearer(MalformedToken)}

Rejected(resp) == [next |-> FALSE, resp |-> resp]

authenticate_StoreFirst(header, fault) ==
    IF fault = "throw"
    THEN Rejected(sendInternalError(<<"Authentication", "failed">>, <<>>))
    ELSE IF header.scheme # "Bearer"
    THEN Rejected(sendUnauthorized(<<"No", "token", "provided">>))
    ELSE IF ~verifyAccessToken(header.token, now)
    THEN Rejected(sendUnauthorized(<<"Invalid", "or", "expired", "token">>))
    ELSE IF fault = "empty"
    THEN Rejected(sendUnauthorized(<<"Session", "not", "found">>))
    ELSE IF fault = "norow"
    THEN Rejected(sendInternalError(<<"Authentication", "failed">>, <<>>))
    ELSE
      LET row == admin_auth_verify_session(header.token.payload.session_id)
      IN  IF row.status = "fail"
          THEN Rejected(sendUnauthorized(row.error_message))
          ELSE [next |-> TRUE,
                admin |-> [admin_id |-> row.admin_id, username |-> row.username,
                           email |-> row.email, role |-> row.role,
                           mfa_enabled |-> row.mfa_enabled, is_active |-> TRUE,
                           failed_login_attempts |-> 0],
                session_id |-> row.session_id]

authenticate_TokenOnly(header, fault) ==
    IF header.scheme # "Bearer"
    THEN Rejected(sendUnauthorized(<<"No", "token", "provided">>))
    ELSE IF ~verifyAccessToken(header.token, now)
    THEN Rejected(sendUnauthorized(<<"Invalid", "or", "expired", "token">>))
    ELSE IF fault = "throw"
    THEN Rejected(sendInternalError(<<"Authentication", "failed">>, <<>>))
    ELSE IF fault = "empty"
    THEN Rejected(sendUnauthorized(<<"Session", "not", "found">>))
    ELSE IF fault = "norow"
    THEN Rejected(sendInternalError(<<"Authentication", "failed">>, <<>>))
    ELSE
      LET p == header.token.payload
      IN  [next |-> TRUE,
           admin |-> [admin_id |-> p.admin_id, username |-> p.username,
                      email |-> p.email, role |-> p.role,
                      mfa_enabled |-> FALSE, is_active |-> TRUE,
                      failed_login_attempts |-> 0],
           session_id |-> p.session_id]

authenticate_TrustsTokenRole(header, fault) ==
    IF header.scheme # "Bearer"
    THEN Rejected(sendUnauthorized(<<"No", "token", "provided">>))
    ELSE IF ~verifyAccessToken(header.token, now)
    THEN Rejected(sendUnauthorized(<<"Invalid", "or", "expired", "token">>))
    ELSE IF fault = "throw"
    THEN Rejected(sendInternalError(<<"Authentication", "failed">>, <<>>))
    ELSE IF fault = "empty"
    THEN Rejected(sendUnauthorized(<<"Session", "not", "found">>))
    ELSE IF fault = "norow"
    THEN Rejected(sendInternalError(<<"Authentication", "failed">>, <<>>))
    ELSE
      LET row == admin_auth_verify_session(header.token.payload.session_id)
      IN  IF row.status = "fail"
          THEN Rejected(sendUnauthorized(row.error_message))
          ELSE [next |-> TRUE,
                admin |-> [admin_id |-> row.admin_id, username |-> row.username,
                           email |-> row.email, role |-> header.token.payload.role,
                           mfa_enabled |-> row.mfa_enabled, is_active |-> TRUE,
                           failed_login_attempts |-> 0],
                session_id |-> row.session_id]

authenticate(header, fault) ==
    IF header.scheme # "Bearer"
    THEN Rejected(sendUnauthorized(<<"No", "token", "provided">>))
    ELSE IF ~verifyAccessToken(header.token, now)
    THEN Rejected(sendUnauthorized(<<"Invalid", "or", "expired", "token">>))
    ELSE IF fault = "throw"
    THEN Rejected(sendInternalError(<<"Authentication", "failed">>, <<>>))
    ELSE IF fault = "empty"
    THEN Rejected(sendUnauthorized(<<"Session", "not", "found">>))
    ELSE IF fault = "norow"
    THEN Rejected(sendInternalError(<<"Authentication", "failed">>, <<>>))
    ELSE
      LET row == admin_auth_verify_session(header.token.payload.session_id)
      IN  IF row.status = "fail"
          THEN Rejected(sendUnauthorized(row.error_message))
          ELSE [next |-> TRUE,
                admin |-> [admin_id |-> row.admin_id, username |-> row.username,
                           email |-> row.email, role |-> row.role,
                           mfa_enabled |-> row.mfa_enabled, is_active |-> TRUE,
                           failed_login_attempts |-> 0],
                session_id |-> row.session_id]

AuthEvent(route, header, fault, verdict, resp) ==
    [op |-> "auth", route |-> route, header |-> header, store |-> fault,
     next |-> verdict.next, resp |-> resp]

\* auth.controller verifySession, reached through next()
verifySession(verdict) ==
    sendSuccess([valid |-> TRUE, admin |-> verdict.admin, session_id |-> verdict.session_id])

(***************************************************************************)
(* A request to a private route: GET /auth/verify or POST /auth/logout.    *)
(* The middleware answers itself or calls next(); the verify controller    *)
(* answers at once, the logout controller awaits the logout procedure.     *)
(***************************************************************************)
Routes == {"verify", "logout"}

Request(route, header, fault) ==
    /\ last = NoEvent
    /\ authreq.pc = "idle"
    /\ LET v == authenticate(header, fault)
       IN  IF ~v.next
           THEN /\ last' = AuthEvent(route, header, fault, v, v.resp)
                /\ authreq' = authreq
           ELSE IF route = "verify"
           THEN /\ last' = AuthEvent(route, header, fault, v, verifySession(v))
                /\ authreq' = authreq
           ELSE /\ authreq' = [pc |-> "logout", admin |-> v.admin,
                               session_id |-> v.session_id, header |-> header]
                /\ last' = last
    /\ UNCHANGED <<now, users, sessions, nextSid, activity_log, req, issued, failures,
                   JWT_EXPIRES_IN>>

\* auth.controller logout -> auth.service logout -> CALL admin_auth_logout
LogoutCall(fault) ==
    /\ last = NoEvent
    /\ authreq.pc = "logout"
    /\ BagCardinality(activity_log) < MaxLog
    /\ LET out == admin_auth_logout(authreq.session_id, authreq.admin.admin_id)
           ev(resp) == [op |-> "logout", session_id |-> authreq.session_id, store |-> fault,
                       resp |-> resp]
       IN  IF fault = "throw"
           THEN /\ last' = ev(sendInternalError(<<"Logout", "failed">>, MsgStoreDown))
                /\ UNCHANGED <<sessions, activity_log>>
           ELSE IF fault = "empty"
           THEN /\ last' = ev(sendInternalError(<<"Logout", "failed">>, <<"Logout", "failed">>))
                /\ UNCHANGED <<sessions, activity_log>>
           ELSE /\ sessions' = out.sessions
                /\ activity_log' = out.activity_log
                /\ last' = IF out.row.status = "fail"
                           THEN ev(sendInternalError(<<"Logout", "failed">>,
                                                     out.row.error_message))
                           ELSE ev(sendSuccess([message |-> "Logged out successfully"]))
    /\ authreq' = IdleAuth
    /\ UNCHANGED <<now, users, nextSid, req, issued, failures,
                   JWT_EXPIRES_IN>>

(***************************************************************************)
(* auth.middleware optionalAuth: attaches the principal when it can and    *)
(* calls next() in every case.                                             *)
(***************************************************************************)
Unattached == [next |-> TRUE, attached |-> FALSE]

optionalAuth_RejectsBadToken(header, fault) ==
    IF header.scheme # "Bearer" THEN Unattached
    ELSE IF ~verifyAccessToken(header.token, now)
    THEN [next |-> FALSE, attached |-> FALSE]
    ELSE IF fault \in {"throw", "empty", "norow"} THEN Unattached
    ELSE
      LET row == admin_auth_verify_session(header.token.payload.session_id)
      IN  IF row.status = "fail"
          THEN Unattached
          ELSE [next |-> TRUE, attached |-> TRUE,
                admin |-> [admin_id |-> row.admin_id, username |-> row.username,
                           email |-> row.email, role |-> row.role,
                           mfa_enabled |-> row.mfa_enabled, is_active |-> TRUE,
                           failed_login_attempts |-> 0],
                session_id |-> row.session_id]

optionalAuth(header, fault) ==
    IF header.scheme # "Bearer" THEN Unattached
    ELSE IF ~verifyAccessToken(header.token, now) THEN Unattached
    ELSE IF fault = "throw" THEN Unattached
    ELSE IF fault \in {"empty", "norow"} THEN Unattached
    ELSE
      LET row == admin_auth_verify_session(header.token.payload.session_id)
      IN  IF row.status = "fail"
          THEN Unattached
          ELSE [next |-> TRUE, attached |-> TRUE,
                admin |-> [admin_id |-> row.admin_id, username |-> row.username,
                           email |-> row.email, role |-> row.role,
                           mfa_enabled |-> row.mfa_enabled, is_active |-> TRUE,
                           failed_login_attempts |-> 0],
                session_id |-> row.session_id]

\* What the middleware did with one request: it sends nothing itself, so the
\* response slot of the event stays empty.
OptionalEvent(header, fault, verdict) ==
    [op |-> "optional", header |-> header, store |-> fault, verdict |-> verdict,
     resp |-> NoResp]

OptionalRequest(header, fault) ==
    /\ last = NoEvent
    /\ last' = OptionalEvent(header, fault, optionalAuth(header, fault))
    /\ UNCHANGED <<now, users, sessions, nextSid, activity_log, req, authreq, issued, failures,
                   JWT_EXPIRES_IN>>

(***************************************************************************)
(* Stored procedure admin_auth_refresh_token(session_id, admin_id): the    *)
(* session is validated as in admin_auth_verify_session; on success its    *)
(* expiry is extended and the owning account is returned as it is now.     *)
(***************************************************************************)
admin_auth_refresh_token(sid, a) ==
    IF SessionLive(sid) /\ \E s \in sessions : s.session_id = sid /\ s.admin_id = a
    THEN ProcState([status |-> "success", admin_id |-> a, username |-> Username(a),
                    email |-> Email(a), role |-> users[a].role, session_id |-> sid,
                    expires_at |-> now + SessionTtl],
                   users,
                   {IF s.session_id = sid THEN [s EXCEPT !.expires_at = now + SessionTtl]
                                          ELSE s : s \in sessions},
                   nextSid, activity_log)
    ELSE ProcState(FailRow("48006", <<"Invalid", "or", "expired", "session">>),
                   users, sessions, nextSid, activity_log)

(***************************************************************************)
(* POST /auth/refresh: auth.controller refreshToken -> verifyRefreshToken  *)
(* -> auth.service refreshToken -> CALL admin_auth_refresh_token.          *)
(***************************************************************************)
NoBody == [present |-> FALSE]

Body(token) == [present |-> TRUE, token |-> token]

Bodies == {NoBody} \cup {Body(t) : t \in issued \cup {ForgedToken, MalformedToken}}

MsgBadRefresh == <<"Invalid", "or", "expired", "refresh", "token">>
MsgRefreshFailed == <<"Token", "refresh", "failed">>

\* auth.controller refreshToken: the catch block
RefreshCatch(message) ==
    IF Includes(message, <<"Invalid", "or", "expired">>)
    THEN sendError(401, "48011", MsgBadRefresh, <<>>)
    ELSE sendInternalError(MsgRefreshFailed, message)

RefreshStatusFail_Unchecked(row) == FALSE

\* refreshResult.status === 'fail'
RefreshStatusFail(row) == Get(row, "status") = "fail"

RefreshPayload_AdminAsSession(row) ==
    [f \in {"admin_id", "username", "email", "role", "session_id"} \cap DOMAIN row |->
        IF f = "session_id" THEN row.admin_id ELSE row[f]]

\* The payload of the new tokens, built from the procedure's row.
RefreshPayload(row) ==
    [f \in {"admin_id", "username", "email", "role", "session_id"} \cap DOMAIN row |-> row[f]]

RefreshResult(row, t) ==
    [access_token |-> generateAccessToken(RefreshPayload(row), t),
     refresh_token |-> generateRefreshToken(RefreshPayload(row), t)] @@ row

RefreshEvent(body, fault, branch, resp) ==
    [op |-> "refresh", body |-> body, store |-> fault, branch |-> branch, resp |-> resp]

Refresh(body, fault) ==
    /\ last = NoEvent
    /\ IF ~body.present
       THEN /\ last' = RefreshEvent(body, fault, "validation",
                          sendError(400, "50000",
                                    <<"Refresh", "token", "is", "required">>, <<>>))
            /\ UNCHANGED <<sessions, issued>>
       ELSE IF ~verifyRefreshToken(body.token, now)
       THEN /\ last' = RefreshEvent(body, fault, "bad_token", RefreshCatch(MsgBadRefresh))
            /\ UNCHANGED <<sessions, issued>>
       ELSE IF fault = "throw"
       THEN /\ last' = RefreshEvent(body, fault, "store_error", RefreshCatch(MsgStoreDown))
            /\ UNCHANGED <<sessions, issued>>
       ELSE IF fault = "empty"
       THEN /\ last' = RefreshEvent(body, fault, "no_result", RefreshCatch(MsgRefreshFailed))
            /\ UNCHANGED <<sessions, issued>>
       ELSE
         LET out == admin_auth_refresh_token(Get(body.token.payload, "session_id"),
                                             Get(body.token.payload, "admin_id"))
         IN  /\ sessions' = out.sessions
             /\ IF RefreshStatusFail(out.row)
                THEN /\ last' = RefreshEvent(body, fault, "procedure_fail",
                                             RefreshCatch(out.row.error_message))
                     /\ issued' = issued
                ELSE /\ last' = RefreshEvent(body, fault, "success",
                                             sendSuccess(RefreshResult(out.row, now)))
                     /\ issued' = issued \cup {RefreshResult(out.row, now).access_token,
                                               RefreshResult(out.row, now).refresh_token}
    /\ UNCHANGED <<now, users, nextSid, activity_log, req, authreq, failures,
                   JWT_EXPIRES_IN>>

\* DELETE FROM admin_sessions WHERE session_id = ?
cleanupSession(sid) ==
    /\ last = NoEvent
    /\ \E s \in sessions : s.session_id = sid
    /\ sessions' = {s \in sessions : s.session_id # sid}
    /\ UNCHANGED <<now, users, nextSid, activity_log, req, authreq, issued, last, failures,
                   JWT_EXPIRES_IN>>

(***************************************************************************)
(* The environment: time passes; an administrator resets or deactivates an *)
(* account.                                                                *)
(***************************************************************************)
Tick ==
    /\ last = NoEvent
    /\ now + TickStep <= MaxTime
    /\ now' = now + TickStep
    /\ UNCHANGED <<users, sessions, nextSid, activity_log, req, authreq, issued, last, failures,
                   JWT_EXPIRES_IN>>

unlockUser_LockOnly(a) ==
    /\ last = NoEvent
    /\ users' = [users EXCEPT ![a].locked_until = NULL]
    /\ UNCHANGED <<now, sessions, nextSid, activity_log, req, authreq, issued, last, failures,
                   JWT_EXPIRES_IN>>

\* UPDATE admin_users SET locked_until = NULL, failed_login_attempts = 0
unlockUser(a) ==
    /\ last = NoEvent
    /\ users' = [users EXCEPT ![a].locked_until = NULL, ![a].failed_login_attempts = 0]
    /\ failures' = [failures EXCEPT ![a] = 0]
    /\ UNCHANGED <<now, sessions, nextSid, activity_log, req, authreq, issued, last,
                   JWT_EXPIRES_IN>>

updateAdminUser(a, is_active) ==
    /\ last = NoEvent
    /\ users' = [users EXCEPT ![a].is_active = is_active]
    /\ UNCHANGED <<now, sessions, nextSid, activity_log, req, authreq, issued, last, failures,
                   JWT_EXPIRES_IN>>

\* admin.service updateAdminUser with updateData = {role}
AdminRoles == {"admin", "viewer"}

updateAdminUserRole(a, role) ==
    /\ last = NoEvent
    /\ users[a].role # role
    /\ users' = [users EXCEPT ![a].role = role]
    /\ UNCHANGED <<now, sessions, nextSid, activity_log, req, authreq, issued, last, failures,
                   JWT_EXPIRES_IN>>

\* Long enough for an access token and a session to run out.
Expire ==
    /\ last = NoEvent
    /\ now <= MaxTime
    /\ now' = now + AccessTtl
    /\ UNCHANGED <<users, sessions, nextSid, activity_log, req, authreq, issued, last, failures,
                   JWT_EXPIRES_IN>>

QueryFaults == {"none", "throw"}
ProcFaults == {"none", "throw", "empty", "sqlerr"}
SessionFaults == {"none", "throw", "empty", "norow"}

(***************************************************************************)
(* Spec: concurrent logins against the lockout ledger.                     *)
(***************************************************************************)
Next ==
    \/ \E r \in Requests, u \in Identifiers, p \in Passwords, f \in QueryFaults :
          LoginBegin(r, u, p, Client1, f)
    \/ \E r \in Requests, f \in QueryFaults : LoginFailedUpdate(r, f)
    \/ \E r \in Requests, f \in ProcFaults : LoginCallProcedure(r, f)
    \/ Observe
    \/ Tick
    \/ \E a \in AdminIds : unlockUser(a)
    \/ \E a \in AdminIds, b \in BOOLEAN : updateAdminUser(a, b)

Spec == Init /\ [][Next]_vars

(***************************************************************************)
(* SpecSeq: one login request at a time.                                   *)
(***************************************************************************)
NextSeq ==
    \/ \E u \in Identifiers, p \in Passwords, f \in QueryFaults :
          LoginBegin(1, u, p, Client1, f)
    \/ \E f \in QueryFaults : LoginFailedUpdate(1, f)
    \/ \E f \in ProcFaults : LoginCallProcedure(1, f)
    \/ Observe
    \/ Tick
    \/ \E a \in AdminIds : unlockUser(a)
    \/ \E a \in AdminIds, b \in BOOLEAN : updateAdminUser(a, b)

SpecSeq == Init /\ [][NextSeq]_vars

(***************************************************************************)
(* SpecSession: sessions and the requests that carry their tokens.  The    *)
(* access token lifetime is configuration: the default, or one that lets   *)
(* an access token outlive its session.                                    *)
(***************************************************************************)
Lifetimes == {AccessTtl, 2 * AccessTtl}

InitSession ==
    /\ now = 0
    /\ users = [a \in AdminIds |->
                  [failed_login_attempts |-> 0, locked_until |-> NULL,
                   is_active |-> TRUE, role |-> "admin"]]
    /\ sessions = {}
    /\ nextSid = 1
    /\ activity_log = EmptyBag
    /\ authreq = IdleAuth
    /\ req = [r \in Requests |-> IdleReq]
    /\ issued = {}
    /\ last = NoEvent
    /\ failures = [a \in AdminIds |-> 0]
    /\ JWT_EXPIRES_IN \in Lifetimes

NextSession ==
    \/ \E u \in {"alice", "alice@example.org"}, c \in Clients :
          LoginBegin(1, u, "S3cret", c, "none")
    \/ LoginCallProcedure(1, "none")
    \/ \E route \in Routes, h \in Headers, f \in SessionFaults : Request(route, h, f)
    \/ \E f \in {"none", "throw", "empty"} : LogoutCall(f)
    \/ \E sid \in 1..MaxSessions : cleanupSession(sid)
    \/ Observe
    \/ Tick
    \/ Expire

SpecSession == InitSession /\ [][NextSession]_vars

(***************************************************************************)
(* SpecPrincipal: an account whose role changes while its tokens are in    *)
(* use.                                                                    *)
(***************************************************************************)
NextPrincipal ==
    \/ LoginBegin(1, "alice", "S3cret", Client1, "none")
    \/ LoginCallProcedure(1, "none")
    \/ \E route \in Routes, h \in Headers : Request(route, h, "none")
    \/ LogoutCall("none")
    \/ \E a \in AdminIds, role \in AdminRoles : updateAdminUserRole(a, role)
    \/ Observe
    \/ Tick

SpecPrincipal == Init /\ [][NextPrincipal]_vars

(***************************************************************************)
(* SpecRefresh: sessions that are refreshed, logged out, deleted or left   *)
(* to run out, and clients that present any token in any place.            *)
(***************************************************************************)
RefreshFaults == {"none", "throw", "empty"}

NextRefresh ==
    \/ LoginBegin(1, "alice", "S3cret", Client1, "none")
    \/ LoginCallProcedure(1, "none")
    \/ \E h \in AnyHeaders : Request("verify", h, "none")
    \/ \E h \in AnyHeaders : Request("logout", h, "none")
    \/ LogoutCall("none")
    \/ \E b \in Bodies, f \in RefreshFaults : Refresh(b, f)
    \/ \E sid \in 1..MaxSessions : cleanupSession(sid)
    \/ Observe
    \/ Tick
    \/ Expire

SpecRefresh == Init /\ [][NextRefresh]_vars

(***************************************************************************)
(* SpecLogins: logins with the right password, two at a time, while        *)
(* session rows are being deleted.                                         *)
(***************************************************************************)
NextLogins ==
    \/ \E r \in Requests, c \in Clients : LoginBegin(r, "alice", "S3cret", c, "none")
    \/ \E r \in Requests : LoginCallProcedure(r, "none")
    \/ \E sid \in 1..MaxSessions : cleanupSession(sid)
    \/ Observe

SpecLogins == Init /\ [][NextLogins]_vars

(***************************************************************************)
(* SpecApi: every flow that answers a caller (login, logout, session       *)
(* verification, refresh), one request at a time, with a store that may    *)
(* fail at every call.                                                     *)
(***************************************************************************)
NextApi ==
    \/ \E u \in {"alice", "ghost"}, p \in {"S3cret", "wrong"}, f \in QueryFaults :
          LoginBegin(1, u, p, Client1, f)
    \/ \E f \in QueryFaults : LoginFailedUpdate(1, f)
    \/ \E f \in ProcFaults : LoginCallProcedure(1, f)
    \/ \E route \in Routes, h \in AnyHeaders, f \in SessionFaults : Request(route, h, f)
    \/ \E f \in {"none", "throw", "empty"} : LogoutCall(f)
    \/ \E b \in Bodies, f \in RefreshFaults : Refresh(b, f)
    \/ \E a \in AdminIds, b \in BOOLEAN : updateAdminUser(a, b)
    \/ Observe
    \/ Tick

SpecApi == Init /\ [][NextApi]_vars

(***************************************************************************)
(* SpecOptional: requests through optionalAuth, with any header, against   *)
(* sessions that are live, logged out, deleted or run out and a store that *)
(* may fail.                                                               *)
(***************************************************************************)
NextOptional ==
    \/ LoginBegin(1, "alice", "S3cret", Client1, "none")
    \/ LoginCallProcedure(1, "none")
    \/ \E h \in AnyHeaders, f \in SessionFaults : OptionalRequest(h, f)
    \/ \E h \in Headers : Request("logout", h, "none")
    \/ LogoutCall("none")
    \/ \E sid \in 1..MaxSessions : cleanupSession(sid)
    \/ \E a \in AdminIds, role \in AdminRoles : updateAdminUserRole(a, role)
    \/ Observe
    \/ Expire

SpecOptional == Init /\ [][NextOptional]_vars

(***************************************************************************)
(* SpecStore: one login at a time against a store whose calls may reject   *)
(* with any of the error texts above.                                      *)
(***************************************************************************)
StoreFaults == {"none"} \cup ThrowFaults

NextStore ==
    \/ \E u \in {"alice", "ghost"}, p \in {"S3cret", "wrong"}, f \in StoreFaults :
          LoginBegin(1, u, p, Client1, f)
    \/ \E f \in StoreFaults : LoginFailedUpdate(1, f)
    \/ \E f \in ProcFaults \cup ThrowFaults : LoginCallProcedure(1, f)
    \/ \E a \in AdminIds, b \in BOOLEAN : updateAdminUser(a, b)
    \/ Observe
    \/ Tick

SpecStore == Init /\ [][NextStore]_vars

(***************************************************************************)
(* SpecInput: one login at a time, with bodies whose fields may be absent, *)
(* null or empty, against a store that may be down.                        *)
(***************************************************************************)
NextInput ==
    \/ \E u \in AnyIdentifiers, p \in AnyPasswords, f \in QueryFaults :
          LoginBegin(1, u, p, Client1, f)
    \/ \E f \in QueryFaults : LoginFailedUpdate(1, f)
    \/ \E f \in ProcFaults : LoginCallProcedure(1, f)
    \/ Observe

SpecInput == Init /\ [][NextInput]_vars

(***************************************************************************)
(* Properties.                                                             *)
(***************************************************************************)
\* The step in which login request r is answered on the given branch.
Answered(branch) ==
    /\ last = NoEvent
    /\ last'.op = "login"
    /\ last'.branch = branch

\* The account a request in the password comparison is about.
Target == req[last'.r].admin_id

\* C1: counting from failed_attempts = 0 and locked_until = null, the 1st to
\* 4th consecutive wrong-password attempts leave the account unlocked, the
\* 5th locks it until the time of the attempt + 30 minutes, and a locked
\* account stays locked while the lock has not run out and nobody resets it.
C1_LockAfterFive ==
    [][ /\ Answered("wrong_password") =>
           LET k == users'[Target].failed_login_attempts
           IN  /\ k = users[Target].failed_login_attempts + 1
               /\ k \in 1..4 => users'[Target].locked_until = NULL
               /\ k = 5 => /\ users'[Target].locked_until = <<now + 30>>
                           /\ IsLocked(users'[Target], now')
        /\ \A a \in AdminIds :
             (IsLocked(users[a], now) /\ IsLocked(users[a], now') /\ ~unlockUser(a))
                 => IsLocked(users'[a], now')
      ]_vars

\* The account a login response is about (the identifier names at most one).
Named(ev) == CHOOSE a \in SelectUser(ev.username) : TRUE

\* C2: with one request at a time, a login on an account whose locked_until
\* is strictly in the future is answered 403 / 48003 whatever the password,
\* and changes neither the account row nor the sessions nor the tokens.
C2_LockedRejected ==
    [][ ( /\ last = NoEvent
          /\ last'.op = "login"
          /\ last'.branch \notin {"validation", "store_error"}
          /\ SelectUser(last'.username) # {}
          /\ IsLocked(users[Named(last')], now) )
        => /\ last'.resp.status = 403
           /\ last'.resp.code = "48003"
           /\ users' = users
           /\ sessions' = sessions
           /\ issued' = issued
      ]_vars

C2_Witness ==
    /\ last.op = "login"
    /\ last.password = GoodPassword(1)
    /\ SelectUser(last.username) = {1}
    /\ IsLocked(last.user, now)
    /\ IsLocked(users[1], now)
    /\ last.resp.status = 403

\* C3: whatever failed_attempts and locked_until were before, the step in
\* which a login is answered with success leaves failed_attempts = 0 and
\* locked_until = null.
C3_SuccessResets ==
    [][ Answered("success") =>
           /\ users'[Target].failed_login_attempts = 0
           /\ users'[Target].locked_until = NULL
      ]_vars

C3_Witness ==
    /\ last.op = "login"
    /\ last.branch = "success"
    /\ last.resp.status = 200
    /\ last.user.failed_login_attempts >= 5
    /\ last.user.locked_until # NULL
    /\ users[1].failed_login_attempts = 0
    /\ users[1].locked_until = NULL

\* C4: wrong-password updates on one account are never lost: the counter
\* equals the number of failure updates executed since it was last zeroed,
\* so N requests that read the same value and then update, in any
\* interleaving, leave it exactly N higher.
C4_NoLostIncrement ==
    \A a \in AdminIds : users[a].failed_login_attempts = failures[a]

\* A request has answered "wrong password" after another request's update
\* landed between its read and its own update; both are counted.
C4_Witness ==
    /\ last.op = "login"
    /\ last.branch = "wrong_password"
    /\ users[1].failed_login_attempts = last.user.failed_login_attempts + 2
    /\ failures[1] = users[1].failed_login_attempts

\* C5: while the lock is in force (locked_until in the future, not reset), no
\* login request raises failed_attempts or moves locked_until later, whatever
\* the interleaving, requests that read the row before the lock included.
C5_LockedLedgerFrozen ==
    [][ \A a \in AdminIds :
          ( /\ last = NoEvent
            /\ last'.op = "login"
            /\ IsLocked(users[a], now) )
          => /\ users'[a].failed_login_attempts <= users[a].failed_login_attempts
             /\ \/ users'[a].locked_until = NULL
                \/ users'[a].locked_until[1] <= users[a].locked_until[1]
      ]_vars

C7_CheckOrder ==
    /\ (last.op = "login" /\ last.branch \notin {"validation", "store_error"}) =>
          LET found == SelectUser(last.username) # {}
              locked == IsLocked(last.user, now)
          IN  /\ last.branch = "not_found" <=> ~found
              /\ last.branch = "locked" <=> (found /\ locked)
              /\ last.branch = "inactive" <=> (found /\ ~locked /\ ~last.user.is_active)
              /\ last.branch = "locked" =>
                    last.resp.status = 403 /\ last.resp.code = "48003"
              /\ last.branch = "inactive" =>
                    last.resp.status = 403 /\ last.resp.code = "48004"
    /\ \A r \in Requests :
          req[r].pc = "compared" =>
             /\ SelectUser(req[r].username) # {}
             /\ ~IsLocked(req[r].user, now)
             /\ req[r].user.is_active

C7_Witness ==
    /\ last.op = "login"
    /\ last.branch = "locked"
    /\ IsLocked(last.user, now)
    /\ ~last.user.is_active
    /\ last.resp.code = "48003"

\* C8 as stated: a login that reads is_active = false and carries the
\* correct password is answered 403 / 48004, creates no session and issues
\* no token.
C8_InactiveRejected_AsStated ==
    [][ ( /\ last = NoEvent
          /\ last'.op = "login"
          /\ last'.branch \notin {"validation", "store_error"}
          /\ SelectUser(last'.username) # {}
          /\ ~last'.user.is_active
          /\ last'.password = GoodPassword(Named(last')) )
        => /\ last'.resp.status = 403
           /\ last'.resp.code = "48004"
           /\ sessions' = sessions
           /\ issued' = issued
      ]_vars

\* C8: a login that reads is_active = false on an account whose lock is not
\* in force, and carries the correct password, is answered 403 / 48004,
\* creates no session and issues no token.
C8_InactiveRejected ==
    [][ ( /\ last = NoEvent
          /\ last'.op = "login"
          /\ last'.branch \notin {"validation", "store_error"}
          /\ SelectUser(last'.username) # {}
          /\ ~last'.user.is_active
          /\ ~IsLocked(last'.user, now)
          /\ last'.password = GoodPassword(Named(last')) )
        => /\ last'.resp.status = 403
           /\ last'.resp.code = "48004"
           /\ last'.resp.data = NoData
           /\ sessions' = sessions
           /\ issued' = issued
      ]_vars

C8_Witness ==
    /\ last.op = "login"
    /\ last.password = GoodPassword(1)
    /\ SelectUser(last.username) = {1}
    /\ ~last.user.is_active
    /\ ~IsLocked(last.user, now)
    /\ last.resp.code = "48004"

\* The activity type that records each outcome.
OutcomeTag(branch) ==
    CASE branch = "success"        -> "ADMIN_LOGIN_SUCCESS"
      [] branch = "locked"         -> "ADMIN_LOGIN_ACCOUNT_LOCKED"
      [] branch = "inactive"       -> "ADMIN_LOGIN_ACCOUNT_INACTIVE"
      [] branch = "wrong_password" -> "ADMIN_LOGIN_INVALID_PASSWORD"

\* C9: every login on an existing account that ends in success,
\* AccountLocked, AccountInactive or InvalidCredentials for a wrong password
\* appends exactly one activity log entry, tagged with that outcome.
C9_OneLogEntryPerAttempt ==
    [][ ( /\ last = NoEvent
          /\ last'.op = "login"
          /\ last'.branch \in {"success", "locked", "inactive", "wrong_password"} )
        => \E e \in BagToSet(activity_log') :
              /\ e.activity_type = OutcomeTag(last'.branch)
              /\ activity_log' = LogAppend(activity_log, e)
      ]_vars

\* The step in which the middleware calls next().
Proceeds ==
    /\ last = NoEvent
    /\ \/ last'.op = "auth" /\ last'.next
       \/ authreq.pc = "idle" /\ authreq'.pc = "logout"

\* The Authorization header of the request that proceeds.
Carried == IF last'.op = "auth" THEN last'.header ELSE authreq'.header

\* C10: authenticate calls next() only for a bearer token that verifies as
\* an access token and whose session the store holds valid at that moment;
\* a verified, unexpired token whose session is no longer valid is answered
\* 401 whenever the session store answers.
C10_SessionGate ==
    [][ /\ Proceeds =>
           /\ Carried.scheme = "Bearer"
           /\ verifyAccessToken(Carried.token, now)
           /\ SessionLive(Carried.token.payload.session_id)
        /\ ( /\ last = NoEvent
             /\ last'.op = "auth"
             /\ last'.store \notin {"throw", "norow"}
             /\ last'.header.scheme = "Bearer"
             /\ verifyAccessToken(last'.header.token, now)
             /\ ~SessionLive(last'.header.token.payload.session_id) )
           => /\ ~last'.next
              /\ last'.resp.status = 401
      ]_vars

\* A request carrying an unexpired access token of a logged-out session has
\* been answered 401.
C10_Witness ==
    /\ last.op = "auth"
    /\ last.store = "none"
    /\ last.header.scheme = "Bearer"
    /\ verifyAccessToken(last.header.token, now)
    /\ \E s \in sessions : /\ s.session_id = last.header.token.payload.session_id
                           /\ ~s.is_active
                           /\ s.expires_at > now
    /\ last.resp.status = 401

\* The session a bearer token names, as the store holds it.
Expired(sid) ==
    \E s \in sessions : s.session_id = sid /\ s.is_active /\ s.expires_at <= now

Inactive(sid) == \E s \in sessions : s.session_id = sid /\ ~s.is_active

Missing(sid) == ~\E s \in sessions : s.session_id = sid

\* The one answer of the middleware to a session that does not verify.
SessionInvalid == sendUnauthorized(<<"Invalid", "or", "expired", "session">>)

\* C11: a request whose access token verifies but whose session has run out
\* (row present, is_active = true, expires_at passed) is answered 401 and
\* next() is not called; the answer is the same one as for a missing or an
\* inactive session.
C11_ExpiredSessionRejected ==
    [][ ( /\ last = NoEvent
          /\ last'.op = "auth"
          /\ last'.store = "none"
          /\ last'.header.scheme = "Bearer"
          /\ verifyAccessToken(last'.header.token, now) )
        => LET sid == last'.header.token.payload.session_id
           IN  /\ Expired(sid) => ~last'.next /\ last'.resp.status = 401
               /\ (Expired(sid) \/ Inactive(sid) \/ Missing(sid))
                     => last'.resp = SessionInvalid
      ]_vars

C11_Witness ==
    /\ last.op = "auth"
    /\ last.store = "none"
    /\ last.header.scheme = "Bearer"
    /\ verifyAccessToken(last.header.token, now)
    /\ Expired(last.header.token.payload.session_id)
    /\ ~last.next
    /\ last.resp.status = 401

\* The principal that the middleware attaches to the request that proceeds.
Attached == IF last'.op = "auth" THEN last'.resp.data.admin ELSE authreq'.admin

\* C12: the role, email and username that authenticate attaches are the
\* account's values in the store at verification time, not the values in
\* the token: a request with an old, still valid token sees a changed role
\* at once.
C12_PrincipalIsCurrent ==
    [][ Proceeds =>
           /\ Attached.admin_id \in AdminIds
           /\ Attached.role = users[Attached.admin_id].role
           /\ Attached.username = Username(Attached.admin_id)
           /\ Attached.email = Email(Attached.admin_id)
           /\ \E s \in sessions : /\ s.session_id = Carried.token.payload.session_id
                                  /\ s.admin_id = Attached.admin_id
      ]_vars

\* A token minted before the role change has passed the middleware and the
\* principal carries the new role.
C12_Witness ==
    /\ last.op = "auth"
    /\ last.next
    /\ last.header.token.payload.role # users[1].role
    /\ last.resp.data.admin.role = users[1].role

\* A token as generateAccessToken / generateRefreshToken handed it out.
MintedAccess(tok) == tok \in issued /\ tok.exp - tok.iat = JWT_EXPIRES_IN

MintedRefresh(tok) == tok \in issued /\ tok.exp - tok.iat = RefreshTtl

\* C13: verification fails closed.  Whatever is presented as an access token
\* and is not an unexpired token minted by generateAccessToken (a refresh
\* token, a bad signature, a malformed or an expired token) gets the one
\* answer "Invalid or expired token" and no principal; whatever is presented
\* as a refresh token and is not an unexpired token minted by
\* generateRefreshToken gets the one answer "Invalid or expired refresh
\* token" and no tokens.
C13_VerificationFailsClosed ==
    /\ ( /\ last.op = "auth"
         /\ last.header.scheme = "Bearer"
         /\ ~(MintedAccess(last.header.token) /\ now < last.header.token.exp) )
       => /\ ~last.next
          /\ last.resp = [status |-> 401, code |-> "48000",
                          message |-> <<"Invalid", "or", "expired", "token">>,
                          details |-> <<>>, data |-> NoData]
    /\ ( /\ last.op = "refresh"
         /\ last.body.present
         /\ ~(MintedRefresh(last.body.token) /\ now < last.body.token.exp) )
       => last.resp = [status |-> 401, code |-> "48011",
                       message |-> <<"Invalid", "or", "expired", "refresh", "token">>,
                       details |-> <<>>, data |-> NoData]

\* An unexpired access token of a live session, presented as a refresh
\* token, has been refused.
C13_Witness ==
    /\ last.op = "refresh"
    /\ last.body.present
    /\ MintedAccess(last.body.token)
    /\ now < last.body.token.exp
    /\ SessionLive(last.body.token.payload.session_id)
    /\ last.resp.status = 401

\* The step in which a refresh request is answered on the given branch.
Refreshed(branch) ==
    /\ last = NoEvent
    /\ last'.op = "refresh"
    /\ last'.branch = branch

\* C14: a successful refresh returns an access token and a refresh token,
\* minted at that moment, that both embed the session id of the refresh
\* token presented and the account id of that session's owner.
C14_RefreshKeepsSession ==
    [][ Refreshed("success") =>
           LET d   == last'.resp.data
               sid == last'.body.token.payload.session_id
           IN  /\ last'.resp.status = 200
               /\ verifyAccessToken(d.access_token, now)
               /\ verifyRefreshToken(d.refresh_token, now)
               /\ d.access_token.iat = now
               /\ d.refresh_token.iat = now
               /\ d.access_token.payload.session_id = sid
               /\ d.refresh_token.payload.session_id = sid
               /\ \E s \in sessions :
                     /\ s.session_id = sid
                     /\ s.admin_id = d.access_token.payload.admin_id
                     /\ s.admin_id = d.refresh_token.payload.admin_id
      ]_vars

\* The second session has been refreshed some time after its login.
C14_Witness ==
    /\ last.op = "refresh"
    /\ last.branch = "success"
    /\ last.body.token.payload.session_id = 2
    /\ last.body.token.iat < now
    /\ last.resp.data.access_token.payload.session_id = 2

\* C15: refresh re-validates the session.  A refresh whose token is validly
\* signed and unexpired but whose session was logged out, has run out or is
\* gone is answered RefreshInvalid (401 / 48011) and mints nothing; a
\* refresh succeeds only on a session that is active and unexpired.
C15_RefreshRevalidates ==
    [][ /\ ( /\ last = NoEvent
             /\ last'.op = "refresh"
             /\ last'.store = "none"
             /\ last'.body.present
             /\ verifyRefreshToken(last'.body.token, now)
             /\ ~SessionLive(last'.body.token.payload.session_id) )
           => /\ last'.resp.status = 401
              /\ last'.resp.code = "48011"
              /\ last'.resp.data = NoData
              /\ issued' = issued
        /\ Refreshed("success") =>
              /\ verifyRefreshToken(last'.body.token, now)
              /\ SessionLive(last'.body.token.payload.session_id)
      ]_vars

\* A refresh token that is still good for days has been refused because its
\* session was logged out.
C15_Witness ==
    /\ last.op = "refresh"
    /\ last.store = "none"
    /\ last.body.present
    /\ verifyRefreshToken(last.body.token, now)
    /\ Inactive(last.body.token.payload.session_id)
    /\ last.resp.code = "48011"

\* The session identifiers handed out so far: every successful login put
\* its tokens into issued, and tokens are never taken back.
HandedOut == {t.payload.session_id : t \in issued}

C17_LoginSuccessEffects ==
    [][ /\ ( /\ last = NoEvent
             /\ last'.op = "login"
             /\ last'.resp.status \notin {400, 500}
             /\ SelectUser(last'.username) # {}
             /\ last'.password = GoodPassword(Named(last'))
             /\ ~IsLocked(users[Named(last')], now)
             /\ users[Named(last')].is_active )
           => last'.branch = "success"
        /\ Answered("success") =>
              LET d == last'.resp.data
                  a == Target
                  c == last'.client
                  claims == [admin_id |-> a, username |-> Username(a),
                             email |-> Email(a), role |-> users'[a].role,
                             session_id |-> d.session_id]
              IN  /\ last'.resp.status = 200
                  /\ \E s \in sessions' :
                        /\ s \notin sessions
                        /\ sessions' = sessions \cup {s}
                        /\ s.session_id = d.session_id
                        /\ s.admin_id = a
                        /\ s.is_active
                        /\ s.ip_address = OrNull(c.ip)
                        /\ s.user_agent = OrNull(c.ua)
                  /\ activity_log' =
                        LogAppend(activity_log,
                                  [activity_type |-> "ADMIN_LOGIN_SUCCESS",
                                   created_by |-> Username(a)])
                  /\ d.access_token.payload = claims
                  /\ d.refresh_token.payload = claims
                  /\ verifyAccessToken(d.access_token, now)
                  /\ verifyRefreshToken(d.refresh_token, now)
      ]_vars

\* A login has succeeded while another session of the account exists: the
\* new row is the second one and carries the client's address.
C17_Witness ==
    /\ last.op = "login"
    /\ last.branch = "success"
    /\ last.client = Client1
    /\ Cardinality(sessions) = 2
    /\ \E s \in sessions : /\ s.session_id = last.resp.data.session_id
                           /\ s.ip_address = "10.0.0.1"
                           /\ s.user_agent = "curl"
                           /\ s.is_active
    /\ last.resp.data.access_token.payload.session_id = last.resp.data.session_id

(***************************************************************************)
(* What a response shows its caller: the fields of its data, of the        *)
(* account object inside it and of the claims inside its tokens, and the   *)
(* words of its message and details.                                       *)
(***************************************************************************)
SecretFields == {"password_hash", "mfa_secret"}

Words(msg) == {msg[i] : i \in 1..Len(msg)}

Reveals(rec) == DOMAIN rec \cap SecretFields # {}

Leaks(resp) ==
    \/ Reveals(resp.data)
    \/ "admin" \in DOMAIN resp.data /\ Reveals(resp.data.admin)
    \/ "access_token" \in DOMAIN resp.data /\ Reveals(resp.data.access_token.payload)
    \/ "refresh_token" \in DOMAIN resp.data /\ Reveals(resp.data.refresh_token.payload)
    \/ \E a \in AdminIds :
          Words(PasswordHash(a)) \cap (Words(resp.message) \cup Words(resp.details)) # {}

\* C18: no answer to a caller, on any path (a login that succeeds or fails,
\* a refresh, a session verification with the principal it returns, a
\* logout), carries a password hash or an MFA secret: not as a field of its
\* data, of the account object or of the token claims, and not in its
\* message or details.
C18_NoSecretsReturned ==
    last # NoEvent => ~Leaks(last.resp)

C18_Witness ==
    /\ last # NoEvent
    /\ last.op = "login"
    /\ last.resp.status = 200
    /\ "email" \in DOMAIN last.resp.data
    /\ "access_token" \in DOMAIN last.resp.data
    /\ ~Leaks(last.resp)

\* An answer to POST /auth/logout, from the middleware or from the controller,
\* and the session the request named.
LogoutAnswer(ev) ==
    \/ ev.op = "logout"
    \/ /\ ev.op = "auth"
       /\ ev.route = "logout"
       /\ ev.header.scheme = "Bearer"
       /\ verifyAccessToken(ev.header.token, now)

SessionOf(ev) ==
    IF ev.op = "logout" THEN ev.session_id ELSE ev.header.token.payload.session_id

StoreFailed(ev) ==
    \/ ev.op = "login" /\ ev.branch = "store_error"
    \/ ev.op = "refresh" /\ ev.branch = "store_error"
    \/ ev.op = "logout" /\ ev.store = "throw"
    \/ /\ ev.op = "auth"
       /\ ev.store = "throw"
       /\ ev.header.scheme = "Bearer"
       /\ verifyAccessToken(ev.header.token, now)

\* C20: when the store fails during login, logout, session verification or
\* refresh, the caller gets 500 with code 52000 and a generic message, and
\* the text of the store's error is nowhere in the response.
C20_StoreErrorsHidden ==
    StoreFailed(last) =>
        /\ last.resp.status = 500
        /\ last.resp.code = "52000"
        /\ ~Includes(last.resp.message, MsgStoreDown)
        /\ ~Includes(last.resp.details, MsgStoreDown)

\* C21: a login with a wrong password on an account that exists and that
\* the service read as unlocked and active is answered 401 / 48002, and the
\* step that answers it raises failed_attempts by exactly 1, creates no
\* session and issues no token (the store answering: a failed store call is
\* not retried and is answered as an internal error).
C21_OneFailureOneIncrement ==
    [][ ( /\ last = NoEvent
          /\ last'.op = "login"
          /\ last'.branch \notin {"validation", "store_error"}
          /\ SelectUser(last'.username) # {}
          /\ last'.password # GoodPassword(Named(last'))
          /\ ~IsLocked(last'.user, now)
          /\ last'.user.is_active )
        => /\ last'.branch = "wrong_password"
           /\ last'.resp.status = 401
           /\ last'.resp.code = "48002"
           /\ users'[Named(last')].failed_login_attempts
                 = users[Named(last')].failed_login_attempts + 1
           /\ sessions' = sessions
           /\ nextSid' = nextSid
           /\ issued' = issued
           /\ last'.resp.data = NoData
      ]_vars

C21_Witness ==
    /\ last.op = "login"
    /\ last.branch = "wrong_password"
    /\ last.password = "wrong"
    /\ ~IsLocked(last.user, now)
    /\ last.user.is_active
    /\ last.user.failed_login_attempts = 2
    /\ users[1].failed_login_attempts = 3
    /\ last.resp.code = "48002"
    /\ sessions = {}
    /\ issued = {}

\* A lock that has run out: locked_until is set but is not in the future.
PastDue(row, t) == row.locked_until # NULL /\ ~IsLocked(row, t)

\* C22: an account whose locked_until is set but not strictly in the future
\* is not answered as locked: a login on it goes on to the active check and
\* the password, and succeeds with the right password when the store
\* answers.  Its locked_until becomes null only in the step of a successful
\* login on it or of an explicit reset: no read and no failed attempt
\* clears it.
C22_PastDueLock ==
    [][ \A a \in AdminIds :
          PastDue(users[a], now) =>
            /\ ( /\ last = NoEvent
                 /\ last'.op = "login"
                 /\ SelectUser(last'.username) = {a} )
               => /\ last'.branch # "locked"
                  /\ last'.resp.code # "48003"
                  /\ ( /\ last'.password = GoodPassword(a)
                       /\ users[a].is_active
                       /\ last'.branch \notin {"store_error", "no_result", "procedure_fail"} )
                     => last'.branch = "success"
            /\ users'[a].locked_until = NULL
                  => \/ /\ Answered("success")
                        /\ Named(last') = a
                     \/ unlockUser(a)
      ]_vars

C22_Witness ==
    /\ last.op = "login"
    /\ last.branch = "wrong_password"
    /\ PastDue(last.user, now)
    /\ users[1].locked_until # NULL
    /\ users[1].locked_until # last.user.locked_until

\* C23: in every step, an account whose locked_until goes from a value to
\* null has failed_attempts = 0 after the step, and every login answered
\* with success leaves failed_attempts = 0: the lock expiry is never cleared
\* with a non-zero counter left behind.
C23_ResetWithClear ==
    [][ /\ \A a \in AdminIds :
             (users[a].locked_until # NULL /\ users'[a].locked_until = NULL)
                => users'[a].failed_login_attempts = 0
        /\ ( /\ last = NoEvent
             /\ last'.op = "login"
             /\ last'.resp.status = 200 )
           => users'[Named(last')].failed_login_attempts = 0
      ]_vars

C23_Witness ==
    /\ last.op = "login"
    /\ last.resp.status = 200
    /\ PastDue(last.user, now)
    /\ last.user.failed_login_attempts > 0
    /\ users[1].locked_until = NULL
    /\ users[1].failed_login_attempts = 0

\* C24: a login whose username or password is missing, null or empty is
\* answered 400 / 50000 whether or not the store is reachable, and the step
\* changes no account row, no session, no log entry and hands out no token.
C24_ValidationFirst ==
    [][ ( /\ last = NoEvent
          /\ last'.op = "login"
          /\ (last'.username \in Absent \/ last'.password \in Absent) )
        => /\ last'.branch = "validation"
           /\ last'.resp.status = 400
           /\ last'.resp.code = "50000"
           /\ users' = users
           /\ sessions' = sessions
           /\ activity_log' = activity_log
           /\ issued' = issued
           /\ req' = req
      ]_vars

C24_Witness ==
    /\ last.op = "login"
    /\ last.username = "alice"
    /\ last.password = JsNull
    /\ last.resp.status = 400
    /\ last.resp.code = "50000"
    /\ users[1].failed_login_attempts = 2

\* C25: a login that is answered at the not-found, the locked or the
\* inactive check changes no account's failed_attempts or locked_until and
\* no session; a login step that does change an account row or the
\* sessions is a wrong-password failure or a success.
C25_RejectedLeavesState ==
    [][ ( /\ last = NoEvent
          /\ last'.op = "login" )
        => /\ last'.branch \in {"not_found", "locked", "inactive"}
                => /\ users' = users
                   /\ sessions' = sessions
                   /\ nextSid' = nextSid
           /\ (users' # users \/ sessions' # sessions)
                => last'.branch \in {"wrong_password", "success"}
      ]_vars

C25_Witness ==
    /\ last.op = "login"
    /\ last.branch = "inactive"
    /\ last.resp.code = "48004"
    /\ users[1].failed_login_attempts = 3
    /\ users[1] = last.user
    /\ sessions # {}

\* C26: once a lock has run out with no successful login and no reset in
\* between, failed_attempts still has the value it had under the lock, which
\* is at least the threshold, and the next wrong-password attempt sets a new
\* lock of the full duration at once.
C26_ExpiredLockRelocks ==
    [][ \A a \in AdminIds :
          PastDue(users[a], now) =>
            /\ users[a].failed_login_attempts >= LockThreshold
            /\ (Answered("wrong_password") /\ Target = a)
                  => /\ users'[a].locked_until = <<now + LockMinutes>>
                     /\ IsLocked(users'[a], now)
      ]_vars

\* The request carries no bearer token that verifies as an access token.
NoValidToken(header) ==
    header.scheme # "Bearer" \/ ~verifyAccessToken(header.token, now)

\* C27: authenticate ends in one of two ways.  Either it calls next() with
\* req.admin and req.session_id set and answers nothing itself, or it sends
\* one error and does not call next(): 401 for a missing or non-Bearer
\* header, for a token that does not verify and for a failed session check,
\* 500 only when the session check threw.  A request without a valid token
\* gets its 401 whatever the state of the store, which is not consulted.
C27_AuthenticateOutcomes ==
    [][ /\ ( /\ last = NoEvent
             /\ last'.op = "auth"
             /\ ~last'.next )
           => /\ authreq' = authreq
              /\ last'.resp.status \in {401, 500}
              /\ last'.resp.data = NoData
              /\ NoValidToken(last'.header) => last'.resp.status = 401
              /\ last'.resp.status = 500
                    <=> (~NoValidToken(last'.header) /\ last'.store \in {"throw", "norow"})
        /\ ( /\ last = NoEvent
             /\ last'.op = "auth"
             /\ last'.next )
           => /\ ~NoValidToken(last'.header)
              /\ last'.store = "none"
              /\ last'.resp = verifySession([admin |-> last'.resp.data.admin,
                                             session_id |-> last'.resp.data.session_id])
              /\ last'.resp.data.session_id = last'.header.token.payload.session_id
        /\ (authreq.pc = "idle" /\ authreq'.pc = "logout")
           => /\ last' = NoEvent
              /\ authreq'.session_id = authreq'.header.token.payload.session_id
              /\ authreq'.admin.admin_id = authreq'.header.token.payload.admin_id
      ]_vars

C27_Witness ==
    /\ last.op = "auth"
    /\ last.header = NoHeader
    /\ last.store = "throw"
    /\ ~last.next
    /\ last.resp.status = 401
    /\ sessions # {}

\* C28: optionalAuth never rejects: for every header and every answer of
\* the store it sends no response and calls next().  It sets req.admin and
\* req.session_id only when the bearer token verifies as an access token and
\* the session check of the store succeeds, and then to the session of the
\* token and the account as the store holds it.
C28_OptionalAuthNeverRejects ==
    [][ ( /\ last = NoEvent
          /\ last'.op = "optional" )
        => LET v == last'.verdict
           IN  /\ v.next
               /\ last'.resp = NoResp
               /\ v.attached
                    <=> /\ ~NoValidToken(last'.header)
                        /\ last'.store = "none"
                        /\ SessionLive(last'.header.token.payload.session_id)
               /\ v.attached
                    => /\ v.session_id = last'.header.token.payload.session_id
                       /\ v.admin.role = users[v.admin.admin_id].role
      ]_vars

C28_Witness ==
    /\ last.op = "optional"
    /\ last.header.scheme = "Bearer"
    /\ verifyAccessToken(last.header.token, now)
    /\ Inactive(last.header.token.payload.session_id)
    /\ last.verdict.next
    /\ ~last.verdict.attached

\* C29: tokens are minted only after the store has confirmed the session in
\* the same call.  Every token that a step adds to the tokens handed out
\* comes from a login or a refresh answered with success, and carries the
\* id of a session the store holds live for the account in the token: the
\* session created by this login, or the session of the presented refresh
\* token, live before the call.  A login or refresh whose store call
\* returned nothing or a fail row hands out no token.
C29_TokensAfterSession ==
    [][ /\ \A tok \in issued' \ issued :
             /\ last = NoEvent
             /\ last'.op \in {"login", "refresh"}
             /\ last'.branch = "success"
             /\ tok \in {last'.resp.data.access_token, last'.resp.data.refresh_token}
             /\ {"session_id", "admin_id"} \subseteq DOMAIN tok.payload
             /\ \E s \in sessions' : /\ s.session_id = tok.payload.session_id
                                     /\ s.admin_id = tok.payload.admin_id
                                     /\ s.is_active
                                     /\ s.expires_at > now
             /\ last'.op = "login"
                  => /\ tok.payload.session_id = nextSid
                     /\ nextSid' = nextSid + 1
             /\ last'.op = "refresh"
                  => /\ tok.payload.session_id = last'.body.token.payload.session_id
                     /\ SessionLive(tok.payload.session_id)
        /\ ( /\ last = NoEvent
             /\ last'.op \in {"login", "refresh"}
             /\ last'.branch \in {"no_result", "procedure_fail"} )
           => /\ issued' = issued
              /\ last'.resp.status # 200
              /\ last'.resp.data = NoData
      ]_vars

C29_Witness ==
    /\ last.op = "refresh"
    /\ last.branch = "procedure_fail"
    /\ verifyRefreshToken(last.body.token, now)
    /\ Inactive(last.body.token.payload.session_id)
    /\ Cardinality(issued) = 2
    /\ last.resp.data = NoData

\* C30: the login controller answers 48003 only for an account found with a
\* lock in force, 48004 only for an account found inactive, and 48002 only
\* for an unknown identifier or a wrong password; a login that failed for
\* another reason (a store call that rejected, no result, a session that
\* could not be created) is answered under none of the three codes.
C30_CodesByCause ==
    (last.op = "login" /\ last.branch # "validation") =>
        LET code == last.resp.code
            found == SelectUser(last.username) # {}
        IN  /\ code = "48003"
                 => /\ found
                    /\ last.branch \in {"locked", "procedure_fail"}
                    /\ IsLocked(users[Named(last)], now)
            /\ code = "48004"
                 => /\ found
                    /\ last.branch \in {"inactive", "procedure_fail"}
                    /\ ~users[Named(last)].is_active
            /\ code = "48002"
                 => last.branch \in {"not_found", "wrong_password"}
            /\ last.branch \in {"store_error", "no_result"}
                 => code \notin {"48002", "48003", "48004"}

====
